---- MODULE Spec2Model ----
(***************************************************************************)
(* Model of the recommendation pipeline of the storefront demo:           *)
(*   src/services/llm_service.py  LLMService (prompt, model call, parser,  *)
(*                                cache)                                   *)
(*   src/app.py                   filter_products                          *)
(*                                                                         *)
(* Texts are sequences of tokens.  Each token stands for a fixed piece of  *)
(* text, and a raw text is the concatenation of its tokens:               *)
(*   "["  "]"  ","   the three JSON punctuation characters                 *)
(*   "x"             one prose character that is not JSON (e.g. the "S"    *)
(*                   of "Sure!"), never a bracket and never white space    *)
(*   "null"          the JSON literal null                                 *)
(*   "o1"  {"id":"prod001","explanation":"Matches running preference",     *)
(*          "confidence_score":8}                                          *)
(*   "o2"  {"id":"prod002"}                                                *)
(*   "o6"  {"id":"prod006","explanation":"Popular","confidence_score":11}  *)
(*   "o0"  {"explanation":"no id given"}                                   *)
(***************************************************************************)
EXTENDS Integers, Sequences, FiniteSets, TLC

VARIABLES
    \* LLMService and the call in progress
    cache,        \* self.cache: key -> result
    pc,           \* "idle" or "streaming" (inside the for loop of _call_llm)
    req,          \* arguments of the call in progress / of the last call
    output,       \* local `output` of _call_llm (empty outside the call)
    delivered,    \* the chunks the stream of the call in progress has
                  \* yielded so far, in order
    ret,          \* how the last call of generate_recommendations ended
    past,         \* <<arguments, outcome, recommendations>> of the calls
                  \* that ended before the last one
    ncalls,       \* number of calls started
    \* _parse_recommendation_response as a function of its arguments
    raw_text, products, parsed,
    \* filter_products as a function of its arguments
    catalog, preferences, filtered

vars == <<cache, pc, req, output, delivered, ret, past, ncalls,
          raw_text, products, parsed, catalog, preferences, filtered>>

pipeVars   == <<cache, pc, req, output, delivered, ret, past, ncalls>>
parseVars  == <<raw_text, products, parsed>>
filterVars == <<catalog, preferences, filtered>>

----------------------------------------------------------------------------
(* Bounds of the model *)

MaxLen == 5          \* tokens in a raw text handed to the parser
MaxProducts == 3     \* products in a catalog handed to filter_products
MaxCalls == 2        \* calls of generate_recommendations in one run
MaxChunks == 2       \* chunks one remote stream delivers

(* Program constants *)

SampleSize == 5      \* products[:5]
DefaultScore == 5    \* item.get("confidence_score", 5)

----------------------------------------------------------------------------
(* Python helpers *)

\* A dict: its keys in insertion order and the value of each key.
Dict(keys, val) == [keys |-> keys, val |-> val]

\* d1 == d2 for two dicts: the same keys with the same values, in any order
SameDict(d1, d2) == d1.val = d2.val

\* The values the code compares with the result of a .get (the values of the
\* keys id, category and brand, and the members of the selected categories
\* and brands) are None or a string: None is the empty tuple and the string
\* s is Str(s), so that None equals None and differs from every string,
\* the string "None" included.
None == <<>>
Str(s) == <<s>>

\* d.get(key, default)
Get(d, key, default) == IF key \in DOMAIN d.val THEN d.val[key] ELSE default

\* d.get(key), with None for an absent key
GetOrNone(d, key) == Get(d, key, None)

\* d[key]
Item(d, key) == d.val[key]

\* a == b for two such values
Equals(a, b) == a = b

\* json.dumps(d, indent=2) of a dict: its key/value pairs in insertion order
JsonDumps(d) == [i \in DOMAIN d.keys |-> <<d.keys[i], d.val[d.keys[i]]>>]

\* seq[:n]
Prefix(seq, n) == SubSeq(seq, 1, IF Len(seq) < n THEN Len(seq) ELSE n)

----------------------------------------------------------------------------
(* Products *)

ProductKeys == <<"id", "name", "category", "price", "brand">>

ProductId(n) ==
    CASE n = 1 -> "prod001" [] n = 2 -> "prod002" [] n = 3 -> "prod003"
      [] n = 4 -> "prod004" [] n = 5 -> "prod005" [] n = 6 -> "prod006"
      [] OTHER -> "prod007"

Product(n) ==
    Dict(ProductKeys,
         [id |-> Str(ProductId(n)),
          name |-> "Ultra-Comfort Running Shoes",
          category |-> Str("Footwear"),
          brand |-> Str("SportsFlex"),
          price |-> 80 + n])

----------------------------------------------------------------------------
(* Raw texts and json.loads on them *)

ObjectTokens == {"o0", "o1", "o2", "o6"}

\* the dict a JSON object token decodes to
ObjectOf(tok) ==
    CASE tok = "o1" -> Dict(<<"id", "explanation", "confidence_score">>,
                            [id |-> Str("prod001"),
                             explanation |-> "Matches running preference",
                             confidence_score |-> 8])
      [] tok = "o2" -> Dict(<<"id">>, [id |-> Str("prod002")])
      [] tok = "o6" -> Dict(<<"id", "explanation", "confidence_score">>,
                            [id |-> Str("prod006"), explanation |-> "Popular",
                             confidence_score |-> 11])
      [] OTHER      -> Dict(<<"explanation">>,
                            [explanation |-> "no id given"])

\* str.find(ch): the first position of ch, counted from 1; 0 stands for -1
RECURSIVE FindFrom(_, _, _)
FindFrom(s, ch, i) ==
    IF i > Len(s) THEN 0
    ELSE IF s[i] = ch THEN i
    ELSE FindFrom(s, ch, i + 1)

find(s, ch) == FindFrom(s, ch, 1)

\* str.rfind(ch): the last position of ch, counted from 1; 0 stands for -1
RECURSIVE RFindFrom(_, _, _)
RFindFrom(s, ch, i) ==
    IF i < 1 THEN 0
    ELSE IF s[i] = ch THEN i
    ELSE RFindFrom(s, ch, i - 1)

rfind(s, ch) == RFindFrom(s, ch, Len(s))

\* variant: raw_text[start:end], the closing bracket left out
json_text_exclusive(s, start, end) == SubSeq(s, start, end - 1)

\* raw_text[start:end+1] with start, end counted from 1
json_text(s, start, end) == SubSeq(s, start, end)

\* The JSON grammar over tokens:
\*   value ::= "null" | object token | "[" "]" | "[" value ("," value)* "]"
\* ValueEnd(s, i) is the position after the value that starts at i, 0 if none.
RECURSIVE ValueEnd(_, _), ElementsEnd(_, _)
ValueEnd(s, i) ==
    IF i > Len(s) THEN 0
    ELSE IF s[i] = "null" \/ s[i] \in ObjectTokens THEN i + 1
    ELSE IF s[i] = "["
         THEN IF i + 1 <= Len(s) /\ s[i + 1] = "]" THEN i + 2
              ELSE ElementsEnd(s, i + 1)
    ELSE 0

ElementsEnd(s, i) ==
    LET e == ValueEnd(s, i) IN
    IF e = 0 \/ e > Len(s) THEN 0
    ELSE IF s[e] = "]" THEN e + 1
    ELSE IF s[e] = "," THEN ElementsEnd(s, e + 1)
    ELSE 0

\* what an element of the decoded array is: an object token, "null" for
\* None, "list" for a nested array
Decoded(s, i) == IF s[i] = "[" THEN "list" ELSE s[i]

\* the elements of the array whose first element starts at i
RECURSIVE Elements(_, _)
Elements(s, i) ==
    IF s[i] = "]" THEN <<>>
    ELSE LET e == ValueEnd(s, i) IN
         <<Decoded(s, i)>> \o (IF s[e] = "," THEN Elements(s, e + 1) ELSE <<>>)

\* json.loads(s): ok = FALSE stands for JSONDecodeError
JsonLoads(s) ==
    IF ValueEnd(s, 1) # Len(s) + 1
    THEN [ok |-> FALSE, isList |-> FALSE, items |-> <<>>]
    ELSE IF s[1] = "["
         THEN [ok |-> TRUE, isList |-> TRUE, items |-> Elements(s, 2)]
    ELSE [ok |-> TRUE, isList |-> FALSE, items |-> <<>>]

----------------------------------------------------------------------------
(* LLMService._parse_recommendation_response *)

\* next((p for p in products if p["id"] == pid), None): <<p>> or <<>> for None
FirstProduct(prods, pid) ==
    LET hits == {i \in 1..Len(prods) : Equals(Item(prods[i], "id"), pid)} IN
    IF hits = {} THEN <<>>
    ELSE <<prods[CHOOSE i \in hits : \A j \in hits : i <= j]>>

\* variant: a missing confidence_score defaults to 0
RecommendationScoreZero(item, product_data) ==
    [product |-> product_data,
     explanation |-> Get(item, "explanation", ""),
     confidence_score |-> Get(item, "confidence_score", 0)]

\* the dict appended for a resolved item
Recommendation(item, product_data) ==
    [product |-> product_data,
     explanation |-> Get(item, "explanation", ""),
     confidence_score |-> Get(item, "confidence_score", DefaultScore)]

\* the for loop over the decoded array; raised stands for the AttributeError
\* of item.get on an element that is not a dict
RECURSIVE ParseLoop(_, _, _)
ParseLoop(items, prods, recommendations) ==
    IF items = <<>>
    THEN [raised |-> FALSE, recommendations |-> recommendations]
    ELSE IF Head(items) \notin ObjectTokens
    THEN [raised |-> TRUE, recommendations |-> <<>>]
    ELSE LET item == ObjectOf(Head(items))
             pid == GetOrNone(item, "id")
             product_data == FirstProduct(prods, pid)
         IN  IF product_data # <<>>
             THEN ParseLoop(Tail(items), prods,
                      Append(recommendations,
                             Recommendation(item, product_data[1])))
             ELSE ParseLoop(Tail(items), prods, recommendations)

Empty == [raised |-> FALSE, recommendations |-> <<>>]

\* the substring handed to json.loads
Candidate(text) == json_text(text, find(text, "["), rfind(text, "]"))

ParseRecommendationResponse(text, prods) ==
    LET start == find(text, "[")
        end == rfind(text, "]")
    IN  IF start = 0 \/ end = 0 THEN Empty
        ELSE LET loaded == JsonLoads(Candidate(text)) IN
             IF ~loaded.ok THEN Empty
             ELSE IF ~loaded.isList THEN Empty
             ELSE ParseLoop(loaded.items, prods, <<>>)

----------------------------------------------------------------------------
(* filter_products (src/app.py); a list comprehension [p for p in filtered  *)
(* if test] is SelectSeq                                                   *)

\* x in lst
InList(x, lst) == \E i \in DOMAIN lst : Equals(lst[i], x)

\* variant: the lower end of the middle band included
Price50To100Inclusive(p) ==
    50 <= Get(p, "price", 0) /\ Get(p, "price", 0) <= 100

PriceAtMost50(p)   == Get(p, "price", 0) <= 50
Price50To100(p)    == 50 < Get(p, "price", 0) /\ Get(p, "price", 0) <= 100
PriceOver100(p)    == Get(p, "price", 0) > 100

\* the price-range step
FilterByPrice(prods, price_range) ==
    IF price_range # "all"
    THEN IF price_range = "0-50" THEN SelectSeq(prods, PriceAtMost50)
         ELSE IF price_range = "50-100" THEN SelectSeq(prods, Price50To100)
         ELSE IF price_range = "100+" THEN SelectSeq(prods, PriceOver100)
         ELSE prods
    ELSE prods

\* the category step
FilterByCategory(prods, selected_categories) ==
    IF selected_categories # <<>>
    THEN LET Keep(p) == InList(GetOrNone(p, "category"), selected_categories)
         IN  SelectSeq(prods, Keep)
    ELSE prods

\* the brand step
FilterByBrand(prods, selected_brands) ==
    IF selected_brands # <<>>
    THEN LET Keep(p) == InList(GetOrNone(p, "brand"), selected_brands)
         IN  SelectSeq(prods, Keep)
    ELSE prods

filter_products(prods, prefs) ==
    LET byPrice == FilterByPrice(prods, Get(prefs, "priceRange", "all"))
        byCategory == FilterByCategory(byPrice, Get(prefs, "categories", <<>>))
    IN  FilterByBrand(byCategory, Get(prefs, "brands", <<>>))

----------------------------------------------------------------------------
(* Inputs of the two pure functions *)

\* the tokens raw texts are drawn from
Alphabet == {"[", "]", ",", "x", "null", "o0", "o1", "o2"}

Texts == UNION {[1..n -> Alphabet] : n \in 0..MaxLen}

\* catalogs the parser resolves ids against
\* a product whose id is the string "None"
NoneProduct ==
    Dict(ProductKeys,
         [id |-> Str("None"), name |-> "None", category |-> Str("Footwear"),
          brand |-> Str("SportsFlex"), price |-> 4])

ParseCatalogs ==
    {<<Product(1), Product(2)>>, <<Product(1)>>,
     <<Product(2), Product(1), NoneProduct>>}

ShopProduct(id, category, brand, price) ==
    Dict(ProductKeys,
         [id |-> Str(id), name |-> id, category |-> Str(category),
          brand |-> Str(brand), price |-> price])

ShopProducts ==
    {ShopProduct("f40", "Footwear", "SportsFlex", 40),
     ShopProduct("f60", "Footwear", "SportsFlex", 60),
     ShopProduct("f120", "Footwear", "UrbanStyle", 120),
     ShopProduct("a50", "Apparel", "SportsFlex", 50),
     ShopProduct("a100", "Apparel", "UrbanStyle", 100),
     ShopProduct("e101", "Electronics", "UrbanStyle", 101)}

ShopCatalogs == UNION {[1..n -> ShopProducts] : n \in 0..MaxProducts}

PriceRanges == {"all", "0-50", "50-100", "100+"}

\* the keys of preferences, in the order app.py writes them
PreferenceKeys == <<"priceRange", "categories", "brands">>

ShopPreferences ==
    {Dict(PreferenceKeys, v) :
        v \in [priceRange : PriceRanges,
               categories : {<<>>, <<Str("Footwear")>>,
                             <<Str("Apparel"), Str("Footwear")>>},
               brands : {<<>>, <<Str("SportsFlex")>>}]}

----------------------------------------------------------------------------
(* Initial values of the three groups of variables *)

NotCalled == [state |-> "none", recommendations |-> <<>>]

PipeIdle ==
    /\ cache = <<>>
    /\ pc = "idle"
    /\ req = <<>>
    /\ output = <<>>
    /\ delivered = <<>>
    /\ ret = [outcome |-> "none"]
    /\ past = {}
    /\ ncalls = 0

ParseIdle ==
    /\ raw_text = <<>>
    /\ products = <<>>
    /\ parsed = NotCalled

FilterIdle ==
    /\ catalog = <<>>
    /\ preferences = Dict(PreferenceKeys,
                          [priceRange |-> "all", categories |-> <<>>,
                           brands |-> <<>>])
    /\ filtered = [called |-> FALSE, result |-> <<>>]

----------------------------------------------------------------------------
(* The parser applied to every raw text and catalog of the bounds *)

ParseInit ==
    /\ PipeIdle
    /\ FilterIdle
    /\ raw_text \in Texts
    /\ products \in ParseCatalogs
    /\ parsed = NotCalled

\* the parser returns its list
ParseReturns ==
    /\ parsed.state = "none"
    /\ LET r == ParseRecommendationResponse(raw_text, products) IN
       /\ ~r.raised
       /\ parsed' = [state |-> "returned", recommendations |-> r.recommendations]
    /\ UNCHANGED <<raw_text, products, pipeVars, filterVars>>

\* the parser raises (AttributeError from item.get)
ParseRaises ==
    /\ parsed.state = "none"
    /\ ParseRecommendationResponse(raw_text, products).raised
    /\ parsed' = [state |-> "raised", recommendations |-> <<>>]
    /\ UNCHANGED <<raw_text, products, pipeVars, filterVars>>

ParseNext == ParseReturns \/ ParseRaises

ParseSpec == ParseInit /\ [][ParseNext]_vars

----------------------------------------------------------------------------
(* filter_products applied to every catalog and preferences of the bounds *)

FilterInit ==
    /\ PipeIdle
    /\ ParseIdle
    /\ catalog \in ShopCatalogs
    /\ preferences \in ShopPreferences
    /\ filtered = [called |-> FALSE, result |-> <<>>]

Filter ==
    /\ ~filtered.called
    /\ filtered' = [called |-> TRUE,
                    result |-> filter_products(catalog, preferences)]
    /\ UNCHANGED <<catalog, preferences, pipeVars, parseVars>>

FilterNext == Filter

FilterSpec == FilterInit /\ [][FilterNext]_vars
----------------------------------------------------------------------------
(* LLMService.generate_recommendations, with the stream of _call_llm *)

\* _create_recommendation_prompt: the three json.dumps sections, each dict
\* written with its keys in insertion order; the instruction text that
\* follows them is the same in every prompt
create_recommendation_prompt(prefs, history, prods) ==
    LET sample_products == Prefix(prods, SampleSize)
    IN  [preferences |-> JsonDumps(prefs),
         browsing_history |-> history,
         sample_products |-> [i \in DOMAIN sample_products |->
                                  JsonDumps(sample_products[i])]]

\* hashlib.md5(prompt.encode('utf-8')).hexdigest(), taken as free of collisions
CacheKey(prompt) == <<"md5", prompt>>

KeyOf(r) == CacheKey(create_recommendation_prompt(r[1], r[2], r[3]))

\* {"recommendations": recommendations, "count": len(recommendations)}
SuccessResult(recommendations) ==
    [recommendations |-> recommendations, count |-> Len(recommendations)]

\* variant: the failure value without its error field
FailureResultNoError(cause) == [recommendations |-> <<>>, count |-> 0]

\* {"recommendations": [], "count": 0, "error": str(e)}, e the RuntimeError
\* of _call_llm
FailureResult(cause) ==
    [recommendations |-> <<>>, count |-> 0,
     error |-> <<"Error calling Replicate model: ", cause>>]

\* variant: the result is not stored
CachePutDropped(c, key, result) == c

\* variant: the cache keeps the newest entry only
CachePutSingle(c, key, result) == key :> result

\* self.cache[key] = result
CachePut(c, key, result) == (key :> result) @@ c

\* variant: output = chunk + output
AccumulateFront(out, chunk) == chunk \o out

\* output += chunk
Accumulate(out, chunk) == out \o chunk

\* inputs of the calls
AllProducts == [priceRange |-> "all", categories |-> <<>>, brands |-> <<>>]

\* the same preferences with the keys written in two orders
Prefs ==
    {Dict(PreferenceKeys, AllProducts),
     Dict(<<"brands", "categories", "priceRange">>, AllProducts)}

Histories == {<<>>, <<"prod001">>}

Catalog6 == [i \in 1..6 |-> Product(i)]
Catalog5 == [i \in 1..5 |-> Product(i)]

Catalogs == {Catalog6, Catalog5, <<Product(1)>>}

Requests == Prefs \X Histories \X Catalogs

\* the chunks a remote stream may yield
Chunks == {<<"[", "o1", ",">>, <<"o6", "]">>, <<"null", "]">>}

\* what makes replicate.run fail
Causes == {"502 Bad Gateway", "timed out"}

\* the record of the calls that ended before the one `ret` describes:
\* arguments, outcome and the recommendations returned (none for a call that
\* raised)
Remember ==
    IF ret.outcome = "none" THEN past
    ELSE past \cup {<<ret.req, ret.outcome,
                      IF ret.outcome = "raised" THEN <<>>
                      ELSE ret.result.recommendations>>}

\* a call whose key is in the cache: the cached value is returned
CacheHit(r) ==
    /\ pc = "idle"
    /\ ncalls < MaxCalls
    /\ KeyOf(r) \in DOMAIN cache
    /\ ret' = [outcome |-> "hit", req |-> r, invoked |-> FALSE,
               result |-> cache[KeyOf(r)]]
    /\ req' = r
    /\ past' = Remember
    /\ ncalls' = ncalls + 1
    /\ output' = <<>>
    /\ delivered' = <<>>
    /\ UNCHANGED <<cache, pc, parseVars, filterVars>>

\* a call whose key is not in the cache: _call_llm opens the stream
CallLLM(r) ==
    /\ pc = "idle"
    /\ ncalls < MaxCalls
    /\ KeyOf(r) \notin DOMAIN cache
    /\ pc' = "streaming"
    /\ req' = r
    /\ ret' = [outcome |-> "running", req |-> r, invoked |-> TRUE]
    /\ past' = Remember
    /\ ncalls' = ncalls + 1
    /\ output' = <<>>
    /\ delivered' = <<>>
    /\ UNCHANGED <<cache, parseVars, filterVars>>

\* one iteration of the for loop of _call_llm
ChunkArrives(chunk) ==
    /\ pc = "streaming"
    /\ Len(delivered) < MaxChunks
    /\ output' = Accumulate(output, chunk)
    /\ delivered' = Append(delivered, chunk)
    /\ UNCHANGED <<cache, pc, req, ret, past, ncalls, parseVars, filterVars>>

\* the stream completes, the parser returns, the result is cached and returned
StreamEnds ==
    /\ pc = "streaming"
    /\ LET r == ParseRecommendationResponse(output, req[3])
           result == SuccessResult(r.recommendations)
       IN  /\ ~r.raised
           /\ cache' = CachePut(cache, KeyOf(req), result)
           /\ ret' = [outcome |-> "ok", req |-> req, invoked |-> TRUE,
                      result |-> result, nchunks |-> Len(delivered)]
    /\ pc' = "idle"
    /\ output' = <<>>
    /\ delivered' = <<>>
    /\ UNCHANGED <<req, past, ncalls, parseVars, filterVars>>

\* the stream completes and the parser raises: the exception leaves
\* generate_recommendations, nothing is returned or cached
StreamEndsParserRaises ==
    /\ pc = "streaming"
    /\ ParseRecommendationResponse(output, req[3]).raised
    /\ ret' = [outcome |-> "raised", req |-> req, invoked |-> TRUE,
               nchunks |-> Len(delivered)]
    /\ pc' = "idle"
    /\ output' = <<>>
    /\ delivered' = <<>>
    /\ UNCHANGED <<cache, req, past, ncalls, parseVars, filterVars>>

\* variant: the failure value is stored in the cache before it is returned
StreamFailsCached(cause) ==
    /\ pc = "streaming"
    /\ ret' = [outcome |-> "failed", req |-> req, invoked |-> TRUE,
               result |-> FailureResult(cause), nchunks |-> Len(delivered)]
    /\ cache' = CachePut(cache, KeyOf(req), FailureResult(cause))
    /\ pc' = "idle"
    /\ output' = <<>>
    /\ delivered' = <<>>
    /\ UNCHANGED <<req, past, ncalls, parseVars, filterVars>>

\* replicate.run raises, before or between chunks: _call_llm raises
\* RuntimeError and generate_recommendations returns the failure value
StreamFails(cause) ==
    /\ pc = "streaming"
    /\ ret' = [outcome |-> "failed", req |-> req, invoked |-> TRUE,
               result |-> FailureResult(cause), nchunks |-> Len(delivered)]
    /\ pc' = "idle"
    /\ output' = <<>>
    /\ delivered' = <<>>
    /\ UNCHANGED <<cache, req, past, ncalls, parseVars, filterVars>>

Init == PipeIdle /\ ParseIdle /\ FilterIdle

Next ==
    \/ \E r \in Requests : CacheHit(r)
    \/ \E r \in Requests : CallLLM(r)
    \/ \E chunk \in Chunks : ChunkArrives(chunk)
    \/ StreamEnds
    \/ StreamEndsParserRaises
    \/ \E cause \in Causes : StreamFails(cause)

Spec == Init /\ [][Next]_vars
----------------------------------------------------------------------------
(* Vocabulary of the properties *)

Range(seq) == {seq[i] : i \in DOMAIN seq}

\* the concatenation of a sequence of chunks, in order
RECURSIVE Flatten(_)
Flatten(cs) == IF cs = <<>> THEN <<>> ELSE Head(cs) \o Flatten(Tail(cs))

Returned == ret.outcome \in {"hit", "ok", "failed"}

IsSuccessValue(r) ==
    /\ DOMAIN r = {"recommendations", "count"}
    /\ r.count = Len(r.recommendations)

IsFailureValue(r) ==
    /\ DOMAIN r = {"recommendations", "count", "error"}
    /\ r.recommendations = <<>>
    /\ r.count = 0

\* this step starts a call of generate_recommendations
CallStarts == ncalls' = ncalls + 1

\* this step ends the stream of the call in progress
StreamStops == pc = "streaming" /\ pc' = "idle"

----------------------------------------------------------------------------
(* C1: once a call with arguments (P, H, C) has returned a parsed result,  *)
(* every later call with the same arguments (the same values, each dict    *)
(* with its keys in the same order) is served from the cache: it makes no  *)
(* remote invocation and returns the result the earlier call returned.     *)

C1_SecondCallFromCache ==
    \A e \in past :
        (e[1] = ret.req /\ e[2] = "ok")
            => /\ ret.outcome = "hit"
               /\ ~ret.invoked
               /\ ret.result = SuccessResult(e[3])
               /\ ret.result = cache[KeyOf(ret.req)]

C1_Witness ==
    /\ ret.outcome = "hit"
    /\ \E e \in past : e[1] = ret.req /\ e[2] = "ok" /\ Len(e[3]) = 2

(* C2: a failed invocation is never cached: no cache value has an error    *)
(* field, the step in which the stream fails leaves the cache unchanged    *)
(* and returns a failure value, and a call that directly follows a failed  *)
(* call with the same arguments opens the remote stream again.             *)

C2_NoFailureCached ==
    \A k \in DOMAIN cache : "error" \notin DOMAIN cache[k]

C2_FailureStep ==
    (StreamStops /\ ret'.outcome = "failed")
        => /\ cache' = cache
           /\ "error" \in DOMAIN ret'.result

C2_RetryInvokes ==
    (pc = "idle" /\ ret.outcome = "failed" /\ CallStarts /\ req' = ret.req)
        => /\ pc' = "streaming"
           /\ ret'.invoked

C2_FailureNeverCached ==
    /\ []C2_NoFailureCached
    /\ [][C2_FailureStep /\ C2_RetryInvokes]_vars

C2_Witness ==
    /\ ret.outcome = "failed"
    /\ ret.invoked
    /\ \E e \in past : e[1] = ret.req /\ e[2] = "failed"
    /\ KeyOf(ret.req) \notin DOMAIN cache

(* C3: every recommendation a call returns has a product of the catalog    *)
(* passed to that call.                                                    *)

C3_ProductInCatalog ==
    Returned =>
        \A i \in DOMAIN ret.result.recommendations :
            \E p \in Range(ret.req[3]) :
                SameDict(ret.result.recommendations[i].product, p)

(* C4: whatever text the model returns, the parser returns a list and      *)
(* generate_recommendations returns a success value: no call ends with an  *)
(* exception of the parser.                                                *)

C4_MalformedNeverRaises == ret.outcome # "raised"

(* C5: every value generate_recommendations returns is a success value     *)
(* (no error field, count = number of recommendations) or a failure value  *)
(* (error, no recommendations, count 0); a call whose stream failed        *)
(* returns the failure value with the cause in its message; every cached   *)
(* value is a success value.                                               *)

C5_ResultShape ==
    /\ Returned => (IsSuccessValue(ret.result) \/ IsFailureValue(ret.result))
    /\ ret.outcome \in {"hit", "ok"} => IsSuccessValue(ret.result)
    /\ ret.outcome = "failed"
           => /\ IsFailureValue(ret.result)
              /\ \E cause \in Causes :
                     ret.result.error =
                         <<"Error calling Replicate model: ", cause>>
    /\ \A k \in DOMAIN cache : IsSuccessValue(cache[k])

C5_Witness ==
    /\ ret.outcome = "hit"
    /\ ret.result.count = 2
    /\ Len(ret.result.recommendations) = 2
    /\ "error" \notin DOMAIN ret.result

(* C6: a cache entry, once written, is never removed and never changed,    *)
(* and a call served from the cache returns the entry of its key.          *)

C6_EntriesKept ==
    \A k \in DOMAIN cache : k \in DOMAIN cache' /\ cache'[k] = cache[k]

C6_HitReturnsEntry ==
    ret.outcome = "hit" => ret.result = cache[KeyOf(ret.req)]

C6_CacheImmutable ==
    /\ []C6_HitReturnsEntry
    /\ [][C6_EntriesKept]_vars

C6_Witness ==
    /\ ret.outcome = "ok"
    /\ Cardinality(DOMAIN cache) = 2
    /\ \E k \in DOMAIN cache : k # KeyOf(ret.req) /\ cache[k].count > 0

(* C10: while the stream is open the accumulated output is the             *)
(* concatenation of the delivered chunks in arrival order; when the stream *)
(* completes, the result is the parse of that concatenation; when it       *)
(* fails, after any number of chunks, a failure value without              *)
(* recommendations is returned and the cache is left as it was.            *)

C10_Accumulated == pc = "streaming" => output = Flatten(delivered)

C10_Completion ==
    (StreamStops /\ ret'.outcome = "ok")
        => /\ ret'.nchunks = Len(delivered)
           /\ ret'.result =
                  SuccessResult(ParseRecommendationResponse(
                      Flatten(delivered), req[3]).recommendations)

C10_Failure ==
    (StreamStops /\ ret'.outcome = "failed")
        => /\ ret'.nchunks = Len(delivered)
           /\ IsFailureValue(ret'.result)
           /\ cache' = cache

C10_NoPartialResult ==
    /\ []C10_Accumulated
    /\ [][C10_Completion /\ C10_Failure]_vars

C10_Witness ==
    /\ ret.outcome = "failed"
    /\ ret.nchunks >= 1
    /\ KeyOf(ret.req) \notin DOMAIN cache
    /\ \E e \in past : e[2] = "ok" /\ Len(e[3]) = 2
----------------------------------------------------------------------------
(* Properties of the parser, under ParseSpec *)

HasBrackets(text) == find(text, "[") # 0 /\ rfind(text, "]") # 0

NoBracket(text) == \A i \in DOMAIN text : text[i] \notin {"[", "]"}

(* C7: for a decoded array of objects the parser returns, in the array's   *)
(* order, one recommendation per element whose id is the id of a catalog   *)
(* product: that product, the element's explanation ("" when absent) and   *)
(* its confidence_score (5 when absent); the other elements are skipped.   *)

C7_ResolvedInOrder ==
    (/\ parsed.state # "none"
     /\ HasBrackets(raw_text)
     /\ JsonLoads(Candidate(raw_text)).ok
     /\ \A t \in Range(JsonLoads(Candidate(raw_text)).items) :
            t \in ObjectTokens)
    => LET items == JsonLoads(Candidate(raw_text)).items
           keep == {i \in DOMAIN items :
                        /\ "id" \in DOMAIN ObjectOf(items[i]).val
                        /\ \E p \in Range(products) :
                               p.val.id = ObjectOf(items[i]).val.id}
           Nth(j) == CHOOSE i \in keep : Cardinality({k \in keep : k <= i}) = j
           recs == parsed.recommendations
       IN  /\ parsed.state = "returned"
           /\ Len(recs) = Cardinality(keep)
           /\ \A j \in DOMAIN recs :
                  LET item == ObjectOf(items[Nth(j)]).val IN
                  /\ recs[j].product \in Range(products)
                  /\ recs[j].product.val.id = item.id
                  /\ recs[j].explanation =
                         (IF "explanation" \in DOMAIN item
                          THEN item.explanation ELSE "")
                  /\ recs[j].confidence_score =
                         (IF "confidence_score" \in DOMAIN item
                          THEN item.confidence_score ELSE 5)

C7_Witness ==
    /\ parsed.state = "returned"
    /\ raw_text = <<"[", "o2", ",", "o1", "]">>
    /\ products = <<Product(1)>>
    /\ Len(parsed.recommendations) = 1
    /\ parsed.recommendations[1].product = Product(1)

(* C8: the text handed to json.loads runs from the first "[" to the last   *)
(* "]" inclusive; a text made of prose, a valid JSON array and prose, with *)
(* no bracket in either prose part, parses as the array alone does; the    *)
(* text  x [ o1 ] x  yields the one recommendation for prod001.            *)

C8_CandidateSpan ==
    (\E i \in DOMAIN raw_text : raw_text[i] = "[") /\
    (\E i \in DOMAIN raw_text : raw_text[i] = "]")
    => LET opens == {i \in DOMAIN raw_text : raw_text[i] = "["}
           closes == {i \in DOMAIN raw_text : raw_text[i] = "]"}
           first == CHOOSE i \in opens : \A j \in opens : i <= j
           last == CHOOSE i \in closes : \A j \in closes : j <= i
       IN  Candidate(raw_text) = SubSeq(raw_text, first, last)

C8_ProseIgnored ==
    parsed.state # "none" =>
        \A i, j \in DOMAIN raw_text :
            LET pre == SubSeq(raw_text, 1, i - 1)
                arr == SubSeq(raw_text, i, j)
                post == SubSeq(raw_text, j + 1, Len(raw_text))
            IN  (/\ i <= j
                 /\ NoBracket(pre)
                 /\ NoBracket(post)
                 /\ arr[1] = "["
                 /\ JsonLoads(arr).ok)
                => LET alone == ParseRecommendationResponse(arr, products) IN
                   /\ parsed.state =
                          (IF alone.raised THEN "raised" ELSE "returned")
                   /\ parsed.recommendations = alone.recommendations

C8_Example ==
    (parsed.state # "none" /\ raw_text = <<"x", "[", "o1", "]", "x">>)
    => /\ parsed.state = "returned"
       /\ parsed.recommendations =
              <<[product |-> Product(1),
                 explanation |-> "Matches running preference",
                 confidence_score |-> 8]>>

C8_FirstToLastBracket == C8_CandidateSpan /\ C8_ProseIgnored /\ C8_Example

C8_Witness ==
    /\ parsed.state = "returned"
    /\ raw_text = <<"x", "[", "o1", "]", "x">>
    /\ Len(parsed.recommendations) = 1

----------------------------------------------------------------------------
(* Property of filter_products, under FilterSpec *)

(* C9: filter_products returns, in catalog order, exactly the products     *)
(* that are in the price band, have a selected category when categories    *)
(* are selected and a selected brand when brands are selected; band        *)
(* "50-100" with category Footwear over Footwear products priced 40, 60    *)
(* and 120 yields the product priced 60.                                   *)

InBand(price, band) ==
    CASE band = "all" -> TRUE
      [] band = "0-50" -> price <= 50
      [] band = "50-100" -> 50 < price /\ price <= 100
      [] band = "100+" -> price > 100

Matches(p) ==
    /\ InBand(p.val.price, preferences.val.priceRange)
    /\ preferences.val.categories # <<>>
           => p.val.category \in Range(preferences.val.categories)
    /\ preferences.val.brands # <<>>
           => p.val.brand \in Range(preferences.val.brands)

C9_ExactlyTheMatching ==
    filtered.called =>
        /\ filtered.result = SelectSeq(catalog, Matches)
        /\ (/\ [i \in DOMAIN catalog |-> catalog[i].val.price] = <<40, 60, 120>>
            /\ \A i \in DOMAIN catalog :
                   catalog[i].val.category = Str("Footwear")
            /\ preferences.val = [priceRange |-> "50-100",
                                  categories |-> <<Str("Footwear")>>,
                                  brands |-> <<>>])
           => filtered.result = <<catalog[2]>>

C9_Witness ==
    /\ filtered.called
    /\ [i \in DOMAIN catalog |-> catalog[i].val.price] = <<40, 60, 120>>
    /\ \A i \in DOMAIN catalog : catalog[i].val.category = Str("Footwear")
    /\ preferences.val = [priceRange |-> "50-100",
                          categories |-> <<Str("Footwear")>>,
                          brands |-> <<>>]
    /\ Len(filtered.result) = 1
    /\ filtered.result[1].val.price = 60

====
